---- MODULE Spec2Model ----
(***************************************************************************)
(* Zonal aggregation engine of geofarm-pipeline (src/04_zonal_stats.py).   *)
(*                                                                         *)
(* The raster is one row of Width float pixels.  A zone geometry is        *)
(* described by what rasterio.mask.mask reads of it: the pixel columns its *)
(* bounding box spans (lo..hi, where 0 and Width+1 lie off the raster),    *)
(* the set of pixels whose centre the polygon covers, and whether the      *)
(* polygon intersects the raster extent at all.  A zone source gives the   *)
(* bounding box and the stretch of the line of pixel centres the polygon   *)
(* holds as coordinates in its own CRS.  Coordinates lie on a lattice per  *)
(* CRS and to_crs rounds to the lattice of its target, as the real         *)
(* transformation rounds to floats; the raster's affine transform brings   *)
(* the coordinates to pixel columns.  Floats are integers, with NaN a      *)
(* reserved code; a mean is an exact fraction <<num, den>>.                *)
(***************************************************************************)
EXTENDS Integers, Sequences, FiniteSets, TLC

\* ---------------------------------------------------------------- bounds
Width == 2
MaxZones == 2

\* ---------------------------------------------------------------- floats
\* np.nan
NaN == 123456789

\* np.inf, above every number
Inf == 987654321

\* the nodata sentinel a raster may declare (src.nodata), as in the spec's
\* end-to-end example
Sentinel == 0 - 9999

\* values a pixel of the input raster may hold
PixelVals == {Sentinel, 1, 2, NaN, Inf}

Abs(v) == IF v < 0 THEN 0 - v ELSE v

\* out_img[0].astype("float32") on an integral value below 2^25: exact up
\* to 2^24, then rounded to the nearest even integer, ties to the multiple
\* of four
Float32(v) ==
    IF v \in {NaN, Inf} THEN v
    ELSE IF Abs(v) <= 16777216 THEN v
    ELSE IF v % 2 = 0 THEN v
    ELSE IF (v - 1) % 4 = 0 THEN v - 1 ELSE v + 1

\* np.isfinite mistaken for "not infinite": NaN passes
IsFiniteKeepsNaN(v) == v # Inf

\* np.isfinite
IsFinite(v) == v \notin {NaN, Inf}

RECURSIVE GCD(_, _)
GCD(a, b) == IF b = 0 THEN a ELSE GCD(b, a % b)

RECURSIVE SumOver(_, _)
\* sum of img[c] over the cells c of S
SumOver(img, S) ==
    IF S = {} THEN 0
    ELSE LET c == CHOOSE d \in S : TRUE
         IN  img[c] + SumOver(img, S \ {c})

\* the NaN mean
NaNMean == <<0, 0>>

\* the infinite mean
InfMean == <<Inf, 1>>

\* float(a.mean()) of the non-empty selection S of img: NaN if a NaN is
\* selected, else inf if inf is, else the fraction in lowest terms
ArrMean(img, S) ==
    IF \E c \in S : img[c] = NaN THEN NaNMean
    ELSE IF \E c \in S : img[c] = Inf THEN InfMean
    ELSE LET s == SumOver(img, S)
             n == Cardinality(S)
             g == GCD(Abs(s), n)
         IN  <<s \div g, n \div g>>

\* float(a.min()): NaN propagates
ArrMin(img, S) ==
    IF \E c \in S : img[c] = NaN THEN NaN
    ELSE CHOOSE v \in {img[c] : c \in S} : \A c \in S : v <= img[c]

\* float(a.max()): NaN propagates
ArrMax(img, S) ==
    IF \E c \in S : img[c] = NaN THEN NaN
    ELSE CHOOSE v \in {img[c] : c \in S} : \A c \in S : v >= img[c]

\* one row of the four statistic lists
StatRow(mean, mn, mx, cnt) ==
    [ndvi_mean |-> mean, ndvi_min |-> mn, ndvi_max |-> mx, ndvi_count |-> cnt]

\* the zero-coverage outcome (NaN, NaN, NaN, 0)
ZeroCoverage == StatRow(NaNMean, NaN, NaN, 0)

\* ---------------------------------------------------------------- zones
Cells == 1..Width

Polygon(lo, hi, cover, outside) ==
    [geom |-> "polygon", lo |-> lo, hi |-> hi, cover |-> cover, outside |-> outside]

\* a geometry the clip rejects (e.g. an empty polygon)
RejectedGeom == [geom |-> "rejected", lo |-> 1, hi |-> 1, cover |-> {}, outside |-> FALSE]

\* a feature with "geometry": null
NullGeom == [geom |-> "null", lo |-> 1, hi |-> 1, cover |-> {}, outside |-> TRUE]

\* the zone geometries the inputs are drawn from
ZoneShapes ==
    { Polygon(1, Width, Cells, FALSE),           \* the whole raster
      Polygon(0, 1, {1}, FALSE),                 \* first pixel, reaching off the raster
      Polygon(2, Width, 2..Width, FALSE),        \* the remaining pixels
      Polygon(1, Width, {1}, FALSE),             \* box spans the raster, footprint one pixel
      Polygon(Width + 1, Width + 1, {}, TRUE),   \* outside, box off the raster
      Polygon(0, Width + 1, {}, TRUE),           \* outside, box overlapping the raster
      RejectedGeom,
      NullGeom }

\* ---------------------------------------------------------------- clip
\* geometry_window: the bounding box intersected with the raster
Window(z) == {c \in Cells : z.lo <= c /\ c <= z.hi}

\* mask(src, geom, crop=True) raises
ClipRaises(z) == z.geom = "rejected" \/ Window(z) = {}

\* the value mask() writes outside the footprint: src.nodata, or 0 when
\* the raster declares none
FillValue(r) == IF r.declared THEN r.nodata ELSE 0

\* out_img of mask(src, geom, crop=True): the window's pixels, those
\* outside the footprint filled
ClipImage(r, z) ==
    [c \in Window(z) |-> IF c \in z.cover THEN r.px[c] ELSE FillValue(r)]

\* lines 52-62 without the nodata conversion of lines 53-54
AggregateKeepsNodata(out_img, nd) ==
    LET arr   == [c \in DOMAIN out_img |-> Float32(out_img[c])]
        valid == {c \in DOMAIN arr : IsFinite(arr[c])}
    IN  IF Cardinality(valid) = 0
        THEN ZeroCoverage
        ELSE StatRow(ArrMean(arr, valid), ArrMin(arr, valid), ArrMax(arr, valid),
                     Cardinality(valid))

\* lines 52-62: the try body after the clip, for the nodata value read at
\* line 32
Aggregate(out_img, nd) ==
    LET arr0  == [c \in DOMAIN out_img |-> Float32(out_img[c])]
        arr   == [c \in DOMAIN arr0 |->
                     IF nd.declared /\ arr0[c] = Float32(nd.nodata) THEN NaN ELSE arr0[c]]
        valid == {c \in DOMAIN arr : IsFinite(arr[c])}
    IN  IF Cardinality(valid) = 0
        THEN ZeroCoverage
        ELSE StatRow(ArrMean(arr, valid), ArrMin(arr, valid), ArrMax(arr, valid),
                     Cardinality(valid))

\* the row one loop iteration appends for a zone that has a geometry
ZoneRow(r, z) ==
    IF ClipRaises(z) THEN ZeroCoverage
    ELSE Aggregate(ClipImage(r, z), [declared |-> r.declared, nodata |-> r.nodata])

\* ---------------------------------------------------------------- ids
Digit(d) == <<"0", "1", "2", "3", "4", "5", "6", "7", "8", "9">>[d + 1]

RECURSIVE Str(_)
\* str(n) of a non-negative integer
Str(n) == IF n < 10 THEN Digit(n) ELSE Str(n \div 10) \o Digit(n % 10)

\* an identifier value with its Python type
IntId(n) == [t |-> "int", s |-> Str(n)]
StrId(s) == [t |-> "str", s |-> s]

\* ---------------------------------------------------------------- CRS
\* the coordinate reference systems of the model.  Each CRS holds
\* coordinates on its own lattice, Scale(c) lattice units to the raster
\* pixel: a coordinate is a whole number of units, as a float is a whole
\* number of ulps, and a transformation rounds to the nearest unit
CRSs == {"EPSG:4326", "EPSG:32633"}

\* the CRS set_crs assigns at line 39
DefaultCrs == "EPSG:4326"

Scale(c) == IF c = "EPSG:32633" THEN 20 ELSE 8
Origin(c) == IF c = "EPSG:32633" THEN 500 ELSE 0 - 60

\* the finest lattice; positions on the ground are given in its units
Fine == Scale("EPSG:32633")

\* n / d rounded to the nearest integer, halves upwards
RoundDiv(n, d) == (2 * n + d) \div (2 * d)

\* coordinate in CRS c of the left edge of pixel column g
Coord(c, g) == Scale(c) * g + Origin(c)

\* coordinate in CRS c of the centre of pixel column g
Centre(c, g) == Coord(c, g) + Scale(c) \div 2

\* pixel column holding coordinate x of CRS c
Ground(c, x) == (x - Origin(c)) \div Scale(c)

\* a coordinate taken as it is: no reprojection
ToCrsIdentity(x, from, to) == x

\* the coordinate transformation of to_crs: the position in the units of
\* the target CRS, rounded to its lattice; equal CRSs are left alone
ToCrs(x, from, to) ==
    IF from = to THEN x
    ELSE Origin(to) + RoundDiv((x - Origin(from)) * Scale(to), Scale(from))

\* GeoSeries.to_crs on one geometry: every coordinate transformed, missing
\* and empty geometries kept
ToCrsGeom(z, from, to) ==
    IF z.geom # "polygon" THEN z
    ELSE [z EXCEPT !.lo = ToCrs(z.lo, from, to),
                   !.hi = ToCrs(z.hi, from, to),
                   !.left = ToCrs(z.left, from, to),
                   !.right = ToCrs(z.right, from, to)]

\* the geometry as mask() reads it on the grid of raster r: the window is
\* the bounding box rounded outwards (floor of its start, ceiling of its
\* end), the footprint the pixels the polygon fill burns: those whose
\* centre lies right of the left edge and not right of the right edge
PixelGeom(r, z) ==
    IF z.geom # "polygon" THEN z
    ELSE Polygon(Ground(r.crs, z.lo), Ground(r.crs, z.hi - 1),
                 {g \in Cells : z.left < Centre(r.crs, g) /\ Centre(r.crs, g) <= z.right},
                 z.outside)

Lowest(S) == CHOOSE g \in S : \A h \in S : g <= h
Highest(S) == CHOOSE g \in S : \A h \in S : h <= g

\* coordinate in CRS c of the point m units of the finest lattice to the
\* right of the left edge of pixel column g
At(c, g, m) == Coord(c, g) + RoundDiv(Scale(c) * m, Fine)

\* distance kept between a polygon's outline and the edges of the pixel
\* columns it spans, in units of the finest lattice: a quarter of a pixel
\* and a bit
LooseMargin == Fine \div 4 + 1

\* the distances the CRS study draws from: an outline reaching one unit
\* over the pixel edge, the loose one, and an outline one unit short of
\* the pixel centres
Margins == {0 - 1, LooseMargin, Fine \div 2 - 1}

\* a polygon in the coordinates of CRS c: bounding box [lo, hi] and,
\* along the line of pixel centres, the stretch (left, right] it holds.
\* It is the shape z (given in pixel columns) drawn m units inside the
\* edges of the columns it spans and covers
InCrs(z, c, m) ==
    IF z.geom # "polygon" THEN z
    ELSE [geom |-> "polygon",
          lo |-> At(c, z.lo, m),
          hi |-> At(c, z.hi + 1, 0 - m),
          left |-> IF z.cover = {} THEN At(c, z.lo, m) ELSE At(c, Lowest(z.cover), m),
          right |-> IF z.cover = {} THEN At(c, z.lo, m)
                    ELSE At(c, Highest(z.cover) + 1, 0 - m),
          outside |-> z.outside /\ m >= 0]

\* the CRS a zone source is read in: an undeclared one is taken as
\* EPSG:4326, lines 38-39
EffectiveCrs(c) == IF c = "none" THEN DefaultCrs ELSE c

\* ---------------------------------------------------------------- inputs
\* the id column of the zone source: absent, the integer ids 1..N that
\* make_grid_over_raster writes, or string ids
IdColumns == {"absent", "int", "str"}

InputId(kind, i) ==
    IF kind = "int" THEN IntId(i)
    ELSE IF kind = "str" THEN StrId("f" \o Str(i))
    ELSE [t |-> "none", s |-> ""]

\* the features of a zone source with the given geometries and id column
Features(geoms, kind) ==
    [i \in 1..Len(geoms) |-> [geometry |-> geoms[i], id |-> InputId(kind, i)]]

RECURSIVE SeqsUpTo(_, _)
\* the sequences over S of length at most n
SeqsUpTo(S, n) ==
    IF n = 0 THEN {<<>>}
    ELSE LET shorter == SeqsUpTo(S, n - 1)
         IN  shorter \cup {Append(q, e) : q \in {p \in shorter : Len(p) = n - 1}, e \in S}

\* the rasters in one of the given CRSs with pixels of the given values
RastersIn(crss, vals) ==
    {[exists |-> TRUE, crs |-> c, declared |-> d, nodata |-> Sentinel, px |-> p] :
        c \in crss, d \in BOOLEAN, p \in [Cells -> vals]}

\* the rasters of the pipeline: a UTM grid
Rasters == RastersIn({"EPSG:32633"}, PixelVals)

MissingRaster ==
    [exists |-> FALSE, crs |-> "EPSG:32633", declared |-> FALSE, nodata |-> Sentinel,
     px |-> [c \in Cells |-> 1]]

\* the geometries a zone source in CRS c holds: the shapes drawn at one of
\* the given margins
Drawn(shapes, c, margins) == {InCrs(z, c, m) : z \in shapes, m \in margins}

\* the zone sources declaring one of the given CRSs (or "none", the data
\* then being in EPSG:4326), with one of the given id columns, of at most
\* n of the given shapes drawn at one of the given margins
VectorsIn(crss, kinds, shapes, margins, n) ==
    UNION {{[exists |-> TRUE, crs |-> c, has_id |-> k # "absent", feats |-> Features(g, k)] :
               g \in SeqsUpTo(Drawn(shapes, EffectiveCrs(c), margins), n),
               k \in IdColumns \cap kinds} : c \in crss}

\* the zone sources of the pipeline: make_grid_over_raster saves EPSG:4326
Vectors == VectorsIn({"EPSG:4326"}, IdColumns, ZoneShapes, {LooseMargin}, MaxZones)

MissingVector == [exists |-> FALSE, crs |-> "none", has_id |-> FALSE, feats |-> <<>>]

\* inputs of the CRS study: every pairing of raster and zone-source CRS,
\* finite pixels, no id column; every shape at every margin alone, and the
\* zone sets of polygons at the loose margin and geometries without
\* coordinates
RastersCrs == RastersIn(CRSs, {Sentinel, 1})
VectorsCrs ==
    VectorsIn(CRSs \cup {"none"}, {"absent"}, ZoneShapes, Margins, 1)
    \cup VectorsIn(CRSs \cup {"none"}, {"absent"},
                   {Polygon(1, Width, Cells, FALSE), Polygon(1, Width, {1}, FALSE),
                    RejectedGeom, NullGeom},
                   {LooseMargin}, MaxZones)

\* ---------------------------------------------------------------- state
VARIABLES
    raster,        \* the raster file: exists, declared/nodata, px
    vector,        \* the zone source: exists, has_id, feats
    pc,            \* position in main / compute_zonal_mean
    nodata,        \* the local nodata read at line 32
    raster_crs,    \* the local raster_crs read at line 31
    gdf,           \* the local GeoDataFrame: crs, has_id, rows
    idx,           \* 1-based position of the loop in gdf
    out_img,       \* result of the clip of the current zone
    means, mins, maxs, counts,
    open_handles,  \* raster handles currently open
    opens, closes, \* raster opens and releases so far
    warnings,      \* indices logged by log.warning
    clipped,       \* positions handed to mask(), in call order
    error,         \* exception that left compute_zonal_mean
    result,        \* the returned table
    files,         \* what main has written
    earlier        \* the table a call before this one returned

vars == <<raster, vector, pc, nodata, raster_crs, gdf, idx, out_img, means, mins, maxs, counts,
          open_handles, opens, closes, warnings, clipped, error, result, files,
          earlier>>

inputs == <<raster, vector, earlier>>
lists == <<means, mins, maxs, counts>>
handles == <<open_handles, opens, closes>>

NoImage == [ok |-> FALSE, img |-> <<>>]
NoResult == [returned |-> FALSE, crs |-> "none", table |-> <<>>]

\* the locals and outputs before main runs
Fresh ==
    /\ pc = "main"
    /\ nodata = [declared |-> FALSE, nodata |-> 0]
    /\ raster_crs = "none"
    /\ gdf = [crs |-> "none", has_id |-> FALSE, rows |-> <<>>]
    /\ idx = 0
    /\ out_img = NoImage
    /\ means = <<>> /\ mins = <<>> /\ maxs = <<>> /\ counts = <<>>
    /\ open_handles = 0 /\ opens = 0 /\ closes = 0
    /\ warnings = <<>>
    /\ clipped = <<>>
    /\ error = "none"
    /\ result = NoResult
    /\ files = [dir |-> FALSE, geojson |-> FALSE, csv |-> FALSE]

\* the program before main runs for the first time
Start == Fresh /\ earlier = NoResult

\* every raster meets every zone source of at most one feature; the
\* rasters of numbers and nodata meet every zone source without id column;
\* the zone sources with an id column meet the rasters of one value
Init ==
    /\ \/ raster \in Rasters /\ vector \in {v \in Vectors : ~v.has_id /\ Len(v.feats) <= 1}
       \/ raster \in RastersIn({"EPSG:32633"}, {Sentinel, 1, 2})
             /\ vector \in {v \in Vectors : ~v.has_id}
       \/ raster \in RastersIn({"EPSG:32633"}, {1}) /\ vector \in {v \in Vectors : v.has_id}
       \/ raster = MissingRaster /\ vector \in {MissingVector, CHOOSE v \in Vectors : Len(v.feats) = 1}
       \/ raster = (CHOOSE r \in Rasters : r.declared) /\ vector = MissingVector
    /\ Start

\* the CRS study starts from every pairing of CRSs
InitCrs ==
    /\ raster \in RastersCrs
    /\ vector \in VectorsCrs
    /\ Start

\* ---------------------------------------------------------------- actions
\* main, lines 79-90: parse the arguments, create the output directory and
\* call compute_zonal_mean
MainStart ==
    /\ pc = "main"
    /\ files' = [files EXCEPT !.dir = TRUE]
    /\ pc' = "check_paths"
    /\ UNCHANGED <<inputs, nodata, raster_crs, gdf, idx, out_img, lists, handles, warnings,
                   clipped, error, result>>

\* lines 24-27
CheckPaths ==
    /\ pc = "check_paths"
    /\ IF ~raster.exists \/ ~vector.exists
       THEN error' = "FileNotFoundError" /\ pc' = "raised"
       ELSE error' = error /\ pc' = "open_meta"
    /\ UNCHANGED <<inputs, nodata, raster_crs, gdf, idx, out_img, lists, handles, warnings,
                   clipped, result, files>>

\* line 30: with rasterio.open(raster_path) as src
OpenMeta ==
    /\ pc = "open_meta"
    /\ open_handles' = open_handles + 1
    /\ opens' = opens + 1
    /\ pc' = "read_meta"
    /\ UNCHANGED <<inputs, nodata, raster_crs, gdf, idx, out_img, lists, closes, warnings,
                   clipped, error, result, files>>

\* lines 31-32 on a handle opened without a with block: never released
ReadMetaLeak ==
    /\ pc = "read_meta"
    /\ raster_crs' = raster.crs
    /\ nodata' = [declared |-> raster.declared,
                  nodata |-> IF raster.declared THEN raster.nodata ELSE 0]
    /\ pc' = "load"
    /\ UNCHANGED <<inputs, gdf, idx, out_img, lists, handles, warnings,
                   clipped, error, result, files>>

\* lines 31-32 and the exit of the with block
ReadMeta ==
    /\ pc = "read_meta"
    /\ raster_crs' = raster.crs
    /\ nodata' = [declared |-> raster.declared,
                  nodata |-> IF raster.declared THEN raster.nodata ELSE 0]
    /\ open_handles' = open_handles - 1
    /\ closes' = closes + 1
    /\ pc' = "load"
    /\ UNCHANGED <<inputs, gdf, idx, out_img, lists, opens, warnings,
                   clipped, error, result, files>>

\* gdf.empty never true: the emptiness check of lines 36-37 dropped
IsEmptyNever(rows) == FALSE

\* gdf.empty, line 36
IsEmpty(rows) == Len(rows) = 0

\* lines 35-39: read the zone source, reject an empty one
LoadPolygons ==
    /\ pc = "load"
    /\ gdf' = [crs |-> EffectiveCrs(vector.crs), has_id |-> vector.has_id,
               rows |-> vector.feats]
    /\ IF IsEmpty(vector.feats)
       THEN error' = "ValueError" /\ pc' = "raised"
       ELSE error' = error /\ pc' = "reproject"
    /\ UNCHANGED <<inputs, nodata, raster_crs, idx, out_img, lists, handles, warnings,
                   clipped, result, files>>

\* lines 42-46 without the to_crs of line 42
ReprojectSkipped ==
    /\ pc = "reproject"
    /\ means' = <<>> /\ mins' = <<>> /\ maxs' = <<>> /\ counts' = <<>>
    /\ pc' = "open_src"
    /\ UNCHANGED <<inputs, nodata, raster_crs, gdf, idx, out_img, handles, warnings,
                   clipped, error, result, files>>

\* lines 42-46: every geometry is transformed to raster_crs; the four
\* lists start empty
Reproject ==
    /\ pc = "reproject"
    /\ gdf' = [gdf EXCEPT
                 !.crs = raster_crs,
                 !.rows = [i \in 1..Len(gdf.rows) |->
                     [gdf.rows[i] EXCEPT
                         !.geometry = ToCrsGeom(gdf.rows[i].geometry, gdf.crs, raster_crs)]]]
    /\ means' = <<>> /\ mins' = <<>> /\ maxs' = <<>> /\ counts' = <<>>
    /\ pc' = "open_src"
    /\ UNCHANGED <<inputs, nodata, raster_crs, idx, out_img, handles, warnings,
                   clipped, error, result, files>>

\* line 47: with rasterio.open(raster_path) as src, and the loop starts
OpenSrc ==
    /\ pc = "open_src"
    /\ open_handles' = open_handles + 1
    /\ opens' = opens + 1
    /\ idx' = 1
    /\ pc' = "loop"
    /\ UNCHANGED <<inputs, nodata, raster_crs, gdf, out_img, lists, closes, warnings,
                   clipped, error, result, files>>

\* mapping(row.geometry), line 49, raises on a null geometry
MappingRaises(z) == z.geom = "null"

\* lines 48-51: the next row; mapping() runs before the try, so its
\* exception leaves the with block (closing src) and the function
ClipZone ==
    /\ pc = "loop"
    /\ idx <= Len(gdf.rows)
    /\ LET z == PixelGeom(raster, gdf.rows[idx].geometry)
       IN  IF MappingRaises(z)
           THEN /\ error' = "AttributeError"
                /\ open_handles' = open_handles - 1
                /\ closes' = closes + 1
                /\ pc' = "raised"
                /\ UNCHANGED <<out_img, clipped>>
           ELSE /\ clipped' = Append(clipped, idx)
                /\ IF ClipRaises(z)
                   THEN out_img' = NoImage /\ pc' = "except"
                   ELSE out_img' = [ok |-> TRUE, img |-> ClipImage(raster, z)]
                        /\ pc' = "aggregate"
                /\ UNCHANGED <<error, open_handles, closes>>
    /\ UNCHANGED <<inputs, nodata, raster_crs, gdf, idx, lists, opens, warnings, result, files>>

\* lines 52-62
AggregateZone ==
    /\ pc = "aggregate"
    /\ LET row == Aggregate(out_img.img, nodata)
       IN  /\ means' = Append(means, row.ndvi_mean)
           /\ mins' = Append(mins, row.ndvi_min)
           /\ maxs' = Append(maxs, row.ndvi_max)
           /\ counts' = Append(counts, row.ndvi_count)
    /\ idx' = idx + 1
    /\ pc' = "loop"
    /\ UNCHANGED <<inputs, nodata, raster_crs, gdf, out_img, handles, warnings, clipped,
                   error, result, files>>

\* lines 63-65 with state carried over: the failed zone repeats the values
\* of the zone before it
HandleFailureCarriesLast ==
    /\ pc = "except"
    /\ warnings' = Append(warnings, idx - 1)
    /\ means' = Append(means, IF means = <<>> THEN NaNMean ELSE means[Len(means)])
    /\ mins' = Append(mins, IF mins = <<>> THEN NaN ELSE mins[Len(mins)])
    /\ maxs' = Append(maxs, IF maxs = <<>> THEN NaN ELSE maxs[Len(maxs)])
    /\ counts' = Append(counts, IF counts = <<>> THEN 0 ELSE counts[Len(counts)])
    /\ idx' = idx + 1
    /\ pc' = "loop"
    /\ UNCHANGED <<inputs, nodata, raster_crs, gdf, out_img, handles, clipped, error,
                   result, files>>

\* lines 63-65: the index label of row idx is its zero-based position
HandleFailure ==
    /\ pc = "except"
    /\ warnings' = Append(warnings, idx - 1)
    /\ means' = Append(means, ZeroCoverage.ndvi_mean)
    /\ mins' = Append(mins, ZeroCoverage.ndvi_min)
    /\ maxs' = Append(maxs, ZeroCoverage.ndvi_max)
    /\ counts' = Append(counts, ZeroCoverage.ndvi_count)
    /\ idx' = idx + 1
    /\ pc' = "loop"
    /\ UNCHANGED <<inputs, nodata, raster_crs, gdf, out_img, handles, clipped, error, result, files>>

\* the loop is exhausted and the with block of line 47 exits
CloseSrc ==
    /\ pc = "loop"
    /\ idx > Len(gdf.rows)
    /\ open_handles' = open_handles - 1
    /\ closes' = closes + 1
    /\ pc' = "assemble"
    /\ UNCHANGED <<inputs, nodata, raster_crs, gdf, idx, out_img, lists, opens, warnings,
                   clipped, error, result, files>>

\* identifiers synthesized one-based
SynthIdOneBased(i) == StrId(Str(i))

\* gdf.index.astype(str), line 70: the RangeIndex label of row i
SynthId(i) == StrId(Str(i - 1))

\* lines 69-70: the id column of the output
OutputId(g, i) == IF g.has_id THEN g.rows[i].id ELSE SynthId(i)

\* lines 68-76: copy, identifier column, the four statistic columns
AssembleTable ==
    /\ pc = "assemble"
    /\ IF /\ Len(means) = Len(gdf.rows) /\ Len(mins) = Len(gdf.rows)
          /\ Len(maxs) = Len(gdf.rows) /\ Len(counts) = Len(gdf.rows)
       THEN /\ result' = [returned |-> TRUE,
                          crs |-> gdf.crs,
                          table |-> [i \in 1..Len(gdf.rows) |->
                              [id |-> OutputId(gdf, i),
                               geometry |-> gdf.rows[i].geometry,
                               ndvi_mean |-> means[i],
                               ndvi_min |-> mins[i],
                               ndvi_max |-> maxs[i],
                               ndvi_count |-> counts[i]]]]
            /\ pc' = "returned"
            /\ error' = error
       ELSE /\ error' = "ValueError"
            /\ pc' = "raised"
            /\ result' = result
    /\ UNCHANGED <<inputs, nodata, raster_crs, gdf, idx, out_img, lists, handles, warnings,
                   clipped, files>>

\* main, line 93
WriteGeoJSON ==
    /\ pc = "returned"
    /\ files' = [files EXCEPT !.geojson = TRUE]
    /\ pc' = "write_csv"
    /\ UNCHANGED <<inputs, nodata, raster_crs, gdf, idx, out_img, lists, handles, warnings,
                   clipped, error, result>>

\* main, lines 94-102
WriteCSV ==
    /\ pc = "write_csv"
    /\ files' = [files EXCEPT !.csv = TRUE]
    /\ pc' = "done"
    /\ UNCHANGED <<inputs, nodata, raster_crs, gdf, idx, out_img, lists, handles, warnings,
                   clipped, error, result>>

Next ==
    \/ MainStart
    \/ CheckPaths
    \/ OpenMeta
    \/ ReadMeta
    \/ LoadPolygons
    \/ Reproject
    \/ OpenSrc
    \/ ClipZone
    \/ AggregateZone
    \/ HandleFailure
    \/ CloseSrc
    \/ AssembleTable
    \/ WriteGeoJSON
    \/ WriteCSV

Spec == Init /\ [][Next]_vars

\* the polygons a zone set can be made of, as shape and margin
GroundZones == {z \in ZoneShapes : z.geom = "polygon"} \X Margins

\* the zone that reads z in CRS from, as it reads in CRS to
SameZoneIn(z, from, to) ==
    IF z.geom # "polygon" THEN z
    ELSE LET d == CHOOSE d \in GroundZones : InCrs(d[1], from, d[2]) = z
         IN  InCrs(d[1], to, d[2])

\* the zone source is saved in another CRS, as make_grid_over_raster saves
\* its grid, and main runs again on the same raster; the table of the
\* first run is kept for comparison
CallAgain ==
    /\ pc = "done"
    /\ result.returned /\ ~earlier.returned
    /\ \E c \in CRSs \ {EffectiveCrs(vector.crs)} :
          vector' = [vector EXCEPT
                        !.crs = c,
                        !.feats = [i \in 1..Len(vector.feats) |->
                            [vector.feats[i] EXCEPT
                                !.geometry = SameZoneIn(vector.feats[i].geometry,
                                                        EffectiveCrs(vector.crs), c)]]]
    /\ earlier' = result
    /\ raster' = raster
    /\ pc' = "main"
    /\ nodata' = [declared |-> FALSE, nodata |-> 0]
    /\ raster_crs' = "none"
    /\ gdf' = [crs |-> "none", has_id |-> FALSE, rows |-> <<>>]
    /\ idx' = 0
    /\ out_img' = NoImage
    /\ means' = <<>> /\ mins' = <<>> /\ maxs' = <<>> /\ counts' = <<>>
    /\ open_handles' = 0 /\ opens' = 0 /\ closes' = 0
    /\ warnings' = <<>>
    /\ clipped' = <<>>
    /\ error' = "none"
    /\ result' = NoResult
    /\ files' = [dir |-> FALSE, geojson |-> FALSE, csv |-> FALSE]

NextCrs == Next \/ CallAgain

\* the same program started from every pairing of raster and zone CRS,
\* and run a second time on the zone set in the other CRS
SpecCrs == InitCrs /\ [][NextCrs]_vars

\* ================================================================ claims
\* the call of compute_zonal_mean has exited
CallEnded == pc \in {"raised", "returned", "write_csv", "done"}

\* number of features of the zone source
N == Len(vector.feats)

\* the pixel columns a geometry given in the coordinates of CRS c spans
\* and covers
ShapeOf(z, c) ==
    IF z.geom # "polygon" THEN z
    ELSE [geom |-> "polygon",
          lo |-> (z.lo - Origin(c)) \div Scale(c),
          hi |-> (z.hi - 1 - Origin(c)) \div Scale(c),
          cover |-> {g \in Cells : /\ z.left < Scale(c) * g + Origin(c) + Scale(c) \div 2
                                   /\ Scale(c) * g + Origin(c) + Scale(c) \div 2 <= z.right},
          outside |-> z.outside]

\* geometry of input feature i, in pixel columns
Zone(i) ==
    ShapeOf(vector.feats[i].geometry, IF vector.crs = "none" THEN "EPSG:4326" ELSE vector.crs)

\* the four statistics of a table row
StatsOf(t) == StatRow(t.ndvi_mean, t.ndvi_min, t.ndvi_max, t.ndvi_count)

\* the pixels of the raster that are finite and, when a nodata value is
\* declared, differ from it
ValidPixel(c) ==
    /\ raster.px[c] \notin {NaN, Inf}
    /\ raster.declared => raster.px[c] # raster.nodata

\* the statistics of the valid pixels whose centre the polygon z covers
CoveredStats(z) ==
    LET V == {c \in z.cover \cap Cells : ValidPixel(c)}
    IN  IF V = {} THEN ZeroCoverage
        ELSE StatRow(ArrMean(raster.px, V), ArrMin(raster.px, V), ArrMax(raster.px, V),
                     Cardinality(V))

\* C1: for a zone source of N >= 1 features the call returns exactly N
\* rows, and row i carries the geometry and the statistics of feature i
C1_Cardinality ==
    (CallEnded /\ raster.exists /\ vector.exists /\ N >= 1) =>
        /\ result.returned
        /\ Len(result.table) = N
        /\ \A i \in 1..N :
              /\ ShapeOf(result.table[i].geometry, raster.crs) = Zone(i)
              /\ StatsOf(result.table[i]) = ZoneRow(raster, Zone(i))

\* C2: in every returned row the mean, min and max are all NaN exactly when
\* the count is 0 and all numbers exactly when the count is positive
C2_AllOrNothing ==
    result.returned =>
        \A i \in 1..Len(result.table) :
            LET t == result.table[i]
            IN  /\ t.ndvi_count >= 0
                /\ t.ndvi_count = 0 =>
                      t.ndvi_mean = NaNMean /\ t.ndvi_min = NaN /\ t.ndvi_max = NaN
                /\ t.ndvi_count > 0 =>
                      t.ndvi_mean # NaNMean /\ t.ndvi_min # NaN /\ t.ndvi_max # NaN

\* a table with a zero-coverage row and a computed row was returned
C2_Witness ==
    /\ result.returned
    /\ \E i, j \in 1..Len(result.table) :
          result.table[i].ndvi_count = 0 /\ result.table[j].ndvi_count > 0

\* C3: when the raster declares a nodata value, a polygon's row holds the
\* mean, min and max of the covered pixels that are finite and differ from
\* nodata, and their number as the count; (NaN, NaN, NaN, 0) if there are none
C3_NodataExcluded ==
    (result.returned /\ raster.declared) =>
        \A i \in 1..Len(result.table) :
            Zone(i).geom = "polygon" =>
                StatsOf(result.table[i]) = CoveredStats(Zone(i))

\* a zone covering a nodata pixel and a valid pixel got a row counting
\* fewer pixels than it covers, and another zone covered only nodata
C3_Witness ==
    /\ result.returned /\ raster.declared
    /\ \E i, j \in 1..Len(result.table) :
          /\ Zone(i).geom = "polygon"
          /\ \E c \in Zone(i).cover : raster.px[c] = raster.nodata
          /\ result.table[i].ndvi_count > 0
          /\ result.table[i].ndvi_count < Cardinality(Zone(i).cover)
          /\ Zone(j).geom = "polygon" /\ Zone(j).cover # {}
          /\ \A c \in Zone(j).cover : raster.px[c] = raster.nodata
          /\ result.table[j].ndvi_count = 0

\* C4: the pixels that contribute to a polygon's row are exactly the valid
\* pixels the polygon covers, whether or not a nodata value is declared
C4_OnlyCoveredPixels ==
    result.returned =>
        \A i \in 1..Len(result.table) :
            Zone(i).geom = "polygon" =>
                StatsOf(result.table[i]) = CoveredStats(Zone(i))

\* the clip or the computation of zone z raises
ZoneFails(z) == MappingRaises(z) \/ ClipRaises(z)

\* C5: a zone that raises does not abort the call; its row is
\* (NaN, NaN, NaN, 0) and every other row is that of the zone on its own
C5_FailureIsolation ==
    (CallEnded /\ raster.exists /\ vector.exists /\ N >= 1) =>
        /\ error = "none"
        /\ result.returned
        /\ \A i \in 1..Len(result.table) :
              IF ZoneFails(Zone(i))
              THEN StatsOf(result.table[i]) = ZeroCoverage
              ELSE StatsOf(result.table[i]) = ZoneRow(raster, Zone(i))

\* a fatal precondition fails: a path is missing or the source is empty
Fatal == ~raster.exists \/ ~vector.exists \/ N = 0

\* C6: under a fatal precondition the call raises before any zone is
\* clipped and returns no table, and main writes neither output file
C6_FatalPreconditions ==
    Fatal =>
        /\ clipped = <<>>
        /\ ~result.returned /\ result.table = <<>>
        /\ ~files.geojson /\ ~files.csv
        /\ pc \in {"main", "check_paths", "open_meta", "read_meta", "load", "raised"}
        /\ pc = "raised" => error \in {"FileNotFoundError", "ValueError"}
        /\ (pc = "raised" /\ raster.exists /\ vector.exists) => error = "ValueError"

\* the call on an existing but empty zone source has raised
C6_Witness ==
    /\ raster.exists /\ vector.exists /\ N = 0
    /\ pc = "raised" /\ error = "ValueError"
    /\ opens = 1

\* C7: every returned row has an identifier and it is a string
C7_IdIsString ==
    result.returned =>
        \A i \in 1..Len(result.table) : result.table[i].id.t = "str"

\* the decimal labels of the first row positions
PositionLabels == <<"0", "1", "2", "3", "4", "5", "6", "7", "8", "9", "10", "11">>

\* C8: without an id column the identifiers are the stringified zero-based
\* row positions, pairwise distinct; an existing id column is left unchanged
C8_IdSynthesis ==
    result.returned =>
        IF vector.has_id
        THEN \A i \in 1..Len(result.table) : result.table[i].id = vector.feats[i].id
        ELSE /\ \A i \in 1..Len(result.table) :
                   result.table[i].id = [t |-> "str", s |-> PositionLabels[i]]
             /\ \A i, j \in 1..Len(result.table) :
                   i # j => result.table[i].id # result.table[j].id

\* a table of at least two rows was returned for a source without id column
C8_Witness ==
    /\ result.returned /\ ~vector.has_id
    /\ Len(result.table) >= 2
    /\ result.table[2].id.s = "1"

\* C9: a polygon entirely outside the raster extent yields (NaN, NaN, NaN, 0)
C9_OutsideIsZeroCoverage ==
    result.returned =>
        \A i \in 1..Len(result.table) :
            (Zone(i).geom = "polygon" /\ Zone(i).outside) =>
                StatsOf(result.table[i]) = ZeroCoverage

\* C10: no raster handle is open once the call has exited, every open is
\* matched by a release, and the handle of the loop stays open (a single
\* one) until the loop ends
C10_HandlesReleased ==
    /\ open_handles = opens - closes
    /\ open_handles \in {0, 1}
    /\ CallEnded => open_handles = 0
    /\ pc \in {"loop", "aggregate", "except"} => open_handles = 1
    /\ pc \in {"load", "reproject", "open_src", "assemble"} => open_handles = 0

\* a call in which a zone's clip raised has returned, both opens released
C10_Witness ==
    /\ pc = "returned"
    /\ warnings # <<>>
    /\ Len(warnings) < Len(result.table)
    /\ opens = 2 /\ closes = 2 /\ open_handles = 0

\* coordinate y of CRS to is the place of coordinate x of CRS from, to the
\* nearest lattice unit of CRS to
SamePlace(x, from, y, to) ==
    2 * Abs(Scale(from) * (y - Origin(to)) - Scale(to) * (x - Origin(from))) <= Scale(from)

\* g is the geometry of input feature i in the coordinates of the raster's
\* CRS
ZoneInRasterCrs(g, i) ==
    LET z == vector.feats[i].geometry
        c == IF vector.crs = "none" THEN "EPSG:4326" ELSE vector.crs
    IN  IF z.geom # "polygon" THEN g = z
        ELSE /\ g.geom = "polygon"
             /\ SamePlace(z.lo, c, g.lo, raster.crs)
             /\ SamePlace(z.hi, c, g.hi, raster.crs)
             /\ SamePlace(z.left, c, g.left, raster.crs)
             /\ SamePlace(z.right, c, g.right, raster.crs)
             /\ g.outside = z.outside

\* the geometry handed to the clip and the geometries of the returned
\* table are the input geometries in the raster's CRS
GeometriesInRasterCrs ==
    /\ pc \in {"aggregate", "except"} =>
          /\ gdf.crs = raster.crs
          /\ ZoneInRasterCrs(gdf.rows[idx].geometry, idx)
    /\ result.returned =>
          /\ result.crs = raster.crs
          /\ \A i \in 1..Len(result.table) :
                ZoneInRasterCrs(result.table[i].geometry, i)

\* C11: whatever CRS the zone source declares (none read as EPSG:4326),
\* every geometry clipped and every geometry returned is in the raster's
\* CRS, and the raster (CRS, nodata, pixels) is never changed
C11_OneDirectional ==
    /\ []GeometriesInRasterCrs
    /\ [][raster' = raster]_vars

\* a zone source declaring no CRS, or one other than the raster's, was
\* clipped and returned for a raster that is not in EPSG:4326
C11_Witness ==
    /\ result.returned
    /\ vector.crs = "none" /\ raster.crs # "EPSG:4326"
    /\ result.crs = raster.crs
    /\ \E i \in 1..Len(result.table) :
          /\ Zone(i).geom = "polygon"
          /\ result.table[i].geometry # vector.feats[i].geometry
          /\ result.table[i].ndvi_count > 0

\* the same raster has been aggregated against the zone set in one CRS and
\* then against the zone set in the other
BothReturned == earlier.returned /\ result.returned

\* C12: the two runs return the same (mean, min, max, count) for every
\* zone
C12_CrsInvariance ==
    BothReturned =>
        \A i \in 1..Len(result.table) :
            StatsOf(result.table[i]) = StatsOf(earlier.table[i])

\* the lattice units of CRS c by which two expressions of one place can
\* differ once both are in c: half a unit of the other CRS and half a unit
\* of c, at most
RoundOff(c) ==
    LET moves == {(Scale(c) + Scale(d)) \div (2 * Scale(d)) : d \in CRSs}
    IN  CHOOSE n \in moves : \A k \in moves : k <= n

\* the outline of g, a geometry in the raster's CRS, keeps more than the
\* round-off away from the edges and the centres of the raster's pixel
\* columns: no coordinate within the round-off of g's falls in another
\* column or on the other side of a centre
Clear(g) ==
    g.geom = "polygon" =>
        \A d \in (0 - RoundOff(raster.crs))..RoundOff(raster.crs) :
            /\ (g.lo + d - Origin(raster.crs)) \div Scale(raster.crs)
                   = (g.lo - Origin(raster.crs)) \div Scale(raster.crs)
            /\ (g.hi - 1 + d - Origin(raster.crs)) \div Scale(raster.crs)
                   = (g.hi - 1 - Origin(raster.crs)) \div Scale(raster.crs)
            /\ \A k \in Cells :
                  LET centre == Scale(raster.crs) * k + Origin(raster.crs)
                                    + Scale(raster.crs) \div 2
                  IN  /\ (g.left + d < centre) <=> (g.left < centre)
                      /\ (centre <= g.right + d) <=> (centre <= g.right)

\* C12 (amended): the two runs return the same (mean, min, max, count) for
\* every zone whose outline, in the raster's CRS, keeps more than the
\* round-off of the coordinate transformation away from the edges and the
\* centres of the raster's pixels
C12_CrsInvarianceClear ==
    BothReturned =>
        \A i \in 1..Len(result.table) :
            Clear(earlier.table[i].geometry) =>
                StatsOf(result.table[i]) = StatsOf(earlier.table[i])

\* both runs returned on a raster in UTM, the second from a zone set that
\* had to be reprojected; a zone clear of centres and edges has a computed
\* row although the round-off moved its outline
C12_Witness ==
    /\ BothReturned
    /\ vector.crs # raster.crs
    /\ \E i \in 1..Len(result.table) :
          /\ earlier.table[i].geometry.geom = "polygon"
          /\ Clear(earlier.table[i].geometry)
          /\ result.table[i].geometry # earlier.table[i].geometry
          /\ result.table[i].ndvi_count > 0
          /\ StatsOf(result.table[i]) = StatsOf(earlier.table[i])

\* the four lists have all received the results of the first k zones
AppendedUpTo(k) ==
    Len(means) = k /\ Len(mins) = k /\ Len(maxs) = k /\ Len(counts) = k

\* C13: zones are handed to the clip in input order, one at a time and
\* never twice; a zone is started only when the zone before it has
\* appended to all four lists; when the call ends every zone was clipped once
C13_InOrderOnce ==
    /\ \A k \in 1..Len(clipped) : clipped[k] = k
    /\ pc \in {"aggregate", "except"} =>
          /\ Len(clipped) = idx
          /\ AppendedUpTo(idx - 1)
    /\ pc = "loop" =>
          /\ Len(clipped) = idx - 1
          /\ AppendedUpTo(idx - 1)
    /\ (CallEnded /\ raster.exists /\ vector.exists /\ N >= 1) =>
          clipped = [k \in 1..N |-> k]

\* the permutations of 1..n
ZonePermutations(n) ==
    {p \in [1..n -> 1..n] : \A a, b \in 1..n : a # b => p[a] # p[b]}

\* the statistics appended for the zone at position k
AppendedRow(k) == StatRow(means[k], mins[k], maxs[k], counts[k])

\* C14: the statistics of a zone are a function of the raster and of that
\* zone's geometry alone, whatever the zones around it: under every
\* permutation of the zone set each zone keeps its statistics
C14_NoSharedState ==
    LET own == [k \in 1..Len(means) |-> ZoneRow(raster, Zone(k))]
        got == [k \in 1..Len(means) |-> AppendedRow(k)]
    IN  /\ AppendedUpTo(Len(means))
        /\ \A k \in 1..Len(means) : got[k] = own[k]
        /\ \A j, k \in 1..Len(means) : Zone(j) = Zone(k) => got[j] = got[k]
        /\ result.returned =>
              \A p \in ZonePermutations(N) : \A k \in 1..N :
                  StatsOf(result.table[p[k]]) = own[p[k]]

\* a table was returned in which a zone that failed follows a zone with
\* valid pixels
C14_Witness ==
    /\ result.returned
    /\ Len(result.table) >= 2
    /\ result.table[1].ndvi_count > 0
    /\ ClipRaises(Zone(2))
    /\ result.table[2].ndvi_count = 0

RECURSIVE FailedBefore(_)
\* the zero-based indices of the zones among the first k that raise
FailedBefore(k) ==
    IF k = 0 THEN <<>>
    ELSE IF ZoneFails(Zone(k)) THEN Append(FailedBefore(k - 1), k - 1)
    ELSE FailedBefore(k - 1)

\* C15: every zone that raises has logged exactly one warning carrying its
\* index, together with its zero-coverage row and before the next zone
\* starts; a zone that does not raise logs none
C15_OneWarningPerFailure ==
    /\ pc = "loop" =>
          /\ warnings = FailedBefore(idx - 1)
          /\ \A k \in 1..Len(warnings) : AppendedRow(warnings[k] + 1) = ZeroCoverage
    /\ pc \in {"aggregate", "except"} => warnings = FailedBefore(idx - 1)
    /\ (CallEnded /\ raster.exists /\ vector.exists /\ N >= 1) =>
          warnings = FailedBefore(N)

====
